---- MODULE Spec2Model ----
(***************************************************************************)
(* Crater-Analysis (src/src/main.rs): the log-classification pipeline.     *)
(*                                                                         *)
(* Text is modelled as a sequence of one-character strings, so that the    *)
(* substring tests, the line split, the regular expression and the path    *)
(* rewriting are computed character by character as the code does.         *)
(*                                                                         *)
(* The module holds several specifications over one set of variables; each *)
(* leaves the variables of the other parts at their idle values:           *)
(*   SpecPath      get_log's derivation of the cache path and the URL      *)
(*   SpecClassify  the loop body of run_analysis applied to one log text   *)
(*   SpecFetch     get_or_download_file, called by concurrent tasks        *)
(*   Spec          run_analysis of one experiment                          *)
(*   FairSpec      Spec with every fetch returning and the loop scheduled  *)
(*   SpecMain      main: configuration, the experiments, the reports       *)
(*   SpecRerun     run_analysis called twice over one cache directory      *)
(*   SpecLevels    the stream of experiments with each experiment's window *)
(***************************************************************************)
EXTENDS Integers, Sequences, FiniteSets, Bags, TLC

VARIABLES
    \* get_log
    gl_pc, gl_experiment, gl_log, gl_log_folder, gl_log_path, gl_log_url,
    \* the loop body of run_analysis on one log text
    cl_pc, cl_log, cl_findings0, cl_findings, cl_has_reason,
    \* get_or_download_file: the cache files, and each calling task
    fs, fetch,
    \* run_analysis of one experiment
    ra_pc, available_parallelism, crates, interresting_runs, regressed_count,
    interesting_results_count, parallelism, next_run, in_progress, returned,
    findings, other, run_pb, ra_result,
    \* bookkeeping of the fan-in loop: the runs in the order they were folded,
    \* those whose fold changed findings, those whose fold grew other
    folded, contributed, appended,
    \* main: the configuration file, the experiments given as arguments, the
    \* report files and the results collected from the stream
    m_pc, config_file, args, experiments, next_experiment, reports, report_file,
    main_result,
    \* run_analysis called twice for one experiment over one cache directory
    rr_pc, rr_run, rr_logs, rr_next_run, rr_in_progress, rr_findings, rr_other,
    rr_classified, rr_reports,
    \* main and run_analysis together: each experiment of the outer stream
    \* with the window of its own inner stream
    lv_experiments, lv_next_experiment, lv_yielded

pathVars == <<gl_pc, gl_experiment, gl_log, gl_log_folder, gl_log_path, gl_log_url>>
classVars == <<cl_pc, cl_log, cl_findings0, cl_findings, cl_has_reason>>
fetchVars == <<fs, fetch>>
analysisVars ==
    <<ra_pc, available_parallelism, crates, interresting_runs, regressed_count,
      interesting_results_count, parallelism, next_run, in_progress, returned,
      findings, other, run_pb, ra_result, folded, contributed, appended>>

mainVars ==
    <<m_pc, config_file, args, experiments, next_experiment, reports,
      report_file, main_result>>

rerunVars ==
    <<rr_pc, rr_run, rr_logs, rr_next_run, rr_in_progress, rr_findings,
      rr_other, rr_classified, rr_reports>>

levelVars == <<lv_experiments, lv_next_experiment, lv_yielded>>

vars ==
    <<pathVars, classVars, fetchVars, analysisVars, mainVars, rerunVars,
      levelVars>>

----------------------------------------------------------------------------
(* Bounds of the model *)

\* the longest log reference, counted in pieces of LogPieces
MaxLogPieces == 4

\* the longest log text, counted in pieces of TextPieces
MaxTextPieces == 4

\* the tasks that call get_or_download_file concurrently
MaxFetchers == 2

\* the most crates of a manifest
MaxCrates == 2

\* the most experiments given on the command line
MaxArgs == 3

\* the longest work list of an experiment whose analysis is run twice
MaxRerunLogs == 2

\* the experiments given on the command line when both windows are followed
MaxLevelArgs == 6

\* the length of the work list of each of those experiments
MaxLevelRuns == 3

----------------------------------------------------------------------------
(* Text helpers: str methods of the Rust standard library *)

RECURSIVE Concat(_)
\* the concatenation of a sequence of texts
Concat(ss) == IF ss = <<>> THEN <<>> ELSE Head(ss) \o Concat(Tail(ss))

\* str::starts_with
StartsWith(s, pre) ==
    /\ Len(pre) <= Len(s)
    /\ SubSeq(s, 1, Len(pre)) = pre

\* str::ends_with
EndsWith(s, suf) ==
    /\ Len(suf) <= Len(s)
    /\ SubSeq(s, Len(s) - Len(suf) + 1, Len(s)) = suf

\* pat occurs in s at position i
OccursAt(s, pat, i) ==
    /\ i >= 1
    /\ i + Len(pat) - 1 <= Len(s)
    /\ SubSeq(s, i, i + Len(pat) - 1) = pat

\* str::contains
Contains(s, pat) == \E i \in 1..(Len(s) + 1) : OccursAt(s, pat, i)

\* the first position at which pat occurs in s, 0 if it does not
Find(s, pat) ==
    IF Contains(s, pat)
    THEN CHOOSE i \in 1..(Len(s) + 1) :
             /\ OccursAt(s, pat, i)
             /\ \A j \in 1..(i - 1) : ~OccursAt(s, pat, j)
    ELSE 0

RECURSIVE Replace(_, _, _)
\* str::replace: every non-overlapping occurrence of from, left to right
\* (from is never empty here)
Replace(s, from, to) ==
    LET i == Find(s, from)
    IN  IF i = 0 THEN s
        ELSE SubSeq(s, 1, i - 1) \o to
             \o Replace(SubSeq(s, i + Len(from), Len(s)), from, to)

RECURSIVE TrimEndMatches(_, _)
\* str::trim_end_matches(char)
TrimEndMatches(s, c) ==
    IF s # <<>> /\ s[Len(s)] = c
    THEN TrimEndMatches(SubSeq(s, 1, Len(s) - 1), c)
    ELSE s

----------------------------------------------------------------------------
(* get_log: the cache path and the URL of a log *)

ResultsDir == <<".", "/", "r", "e", "s", "u", "l", "t", "s", "/">>
LogsDir == <<"/", "l", "o", "g", "s", "/">>
LogTxt == <<"/", "l", "o", "g", ".", "t", "x", "t">>
DotDir == <<"/", "d", "o", "t">>
DotSlash == <<".", "/">>
SlashDotSlash == <<"/", "d", "o", "t", "/">>
BaseUrl ==
    <<"h", "t", "t", "p", "s", ":", "/", "/", "c", "r", "a", "t", "e", "r",
    "-", "r", "e", "p", "o", "r", "t", "s", ".", "s", "3", ".", "a", "m",
    "a", "z", "o", "n", "a", "w", "s", ".", "c", "o", "m", "/">>

RECURSIVE ReplaceAllDotSlash(_)
\* while current.contains("./") { current = current.replace("./", "/dot/") }
ReplaceAllDotSlash(current) ==
    IF Contains(current, DotSlash)
    THEN ReplaceAllDotSlash(Replace(current, DotSlash, SlashDotSlash))
    ELSE current

\* format!("./results/{experiment}/logs/{log}")
LogFolderRaw(experiment, log) == ResultsDir \o experiment \o LogsDir \o log

\* the rewriting that get_log applies to a folder ending in "."
LogFolderDot(folder) ==
    TrimEndMatches(
        ReplaceAllDotSlash(SubSeq(folder, 1, Len(folder) - 1) \o DotDir), "/")

\* log_folder as get_log leaves it before create_dir_all
LogFolder(experiment, log) ==
    LET raw == LogFolderRaw(experiment, log)
    IN  IF EndsWith(raw, <<".">>) THEN LogFolderDot(raw) ELSE raw

\* format!("{log_folder}/log.txt")
LogPath(experiment, log) == LogFolder(experiment, log) \o LogTxt

\* format!("https://crater-reports.s3.amazonaws.com/{experiment}/{log}/log.txt")
LogUrl(experiment, log) == BaseUrl \o experiment \o <<"/">> \o log \o LogTxt

\* the experiment identifiers of the model
Experiments == { <<"e">>, <<"p", "r", "-", "1">> }

\* the pieces log references are made of
LogPieces == { <<".">>, <<"/">>, <<"a">>, <<"d", "o", "t">> }

RECURSIVE PieceSeqs(_, _)
\* the sequences of at most n pieces
PieceSeqs(pieces, n) ==
    IF n = 0 THEN { <<>> }
    ELSE LET shorter == PieceSeqs(pieces, n - 1)
         IN  shorter \cup { <<p>> \o s : p \in pieces, s \in shorter }

\* the log references of the model: non-empty texts of at most MaxLogPieces pieces
LogRefs == { Concat(ps) : ps \in PieceSeqs(LogPieces, MaxLogPieces) } \ { <<>> }

PathInit ==
    /\ gl_pc = "call"
    /\ gl_experiment \in Experiments
    /\ gl_log \in LogRefs
    /\ gl_log_folder = <<>>
    /\ gl_log_path = <<>>
    /\ gl_log_url = <<>>

PathIdle ==
    /\ gl_pc = "idle"
    /\ gl_experiment = <<>>
    /\ gl_log = <<>>
    /\ gl_log_folder = <<>>
    /\ gl_log_path = <<>>
    /\ gl_log_url = <<>>

\* get_log up to its call of get_or_download_file(log_path, log_url)
get_log ==
    /\ gl_pc = "call"
    /\ gl_log_folder' = LogFolder(gl_experiment, gl_log)
    /\ gl_log_path' = LogPath(gl_experiment, gl_log)
    /\ gl_log_url' = LogUrl(gl_experiment, gl_log)
    /\ gl_pc' = "fetch"
    /\ UNCHANGED <<gl_experiment, gl_log>>
    /\ UNCHANGED <<classVars, fetchVars, analysisVars,
                   mainVars, rerunVars, levelVars>>

----------------------------------------------------------------------------
(* The signatures and the loop body of run_analysis: one log text *)

NL == "\n"
CR == "\r"
Digits == { "0", "1", "2", "3", "4", "5", "6", "7", "8", "9" }

\* the position of the first line feed of s, 0 if it has none
FirstNL(s) ==
    IF \E i \in 1..Len(s) : s[i] = NL
    THEN CHOOSE i \in 1..Len(s) : s[i] = NL /\ \A j \in 1..(i - 1) : s[j] # NL
    ELSE 0

RECURSIVE Lines(_)
\* str::lines: the text split after every line feed, each line without its
\* line feed and without a carriage return before that line feed; a text
\* ending in a line feed has no empty last line
Lines(s) ==
    IF s = <<>> THEN <<>>
    ELSE LET i == FirstNL(s)
         IN  IF i = 0 THEN <<s>>
             ELSE LET line == SubSeq(s, 1, i - 1)
                      bare == IF line # <<>> /\ line[Len(line)] = CR
                              THEN SubSeq(line, 1, Len(line) - 1)
                              ELSE line
                  IN  <<bare>> \o Lines(SubSeq(s, i + 1, Len(s)))

\* *findings.entry(name).or_default() += 1
Increment(map, name) ==
    IF name \in DOMAIN map
    THEN [map EXCEPT ![name] = @ + 1]
    ELSE map @@ (name :> 1)

\* a signature that asks for any one of its fragments instead of all of them
TargetMatchesAnyFragment(target, line) ==
    \E j \in 1..Len(target) : Contains(line, target[j])

\* target.all.iter().all(|pat| line.contains(pat))
TargetMatches(target, line) ==
    \A j \in 1..Len(target) : Contains(line, target[j])

\* targets.iter().any(|target| ...)
AnyTargetMatches(targets, line) ==
    \E k \in 1..Len(targets) : TargetMatches(targets[k], line)

RECURSIVE ScanTargets(_, _, _, _)
\* for (target_name, targets) in &config.targets { ... } on one line; names
\* are the names still to visit (a HashMap has no fixed order)
ScanTargets(acc, config_targets, names, line) ==
    IF names = {} THEN acc
    ELSE LET name == CHOOSE n \in names : TRUE
             hit == AnyTargetMatches(config_targets[name], line)
             next == IF hit
                     THEN [findings |-> Increment(acc.findings, name),
                           has_reason |-> TRUE]
                     ELSE acc
         IN  ScanTargets(next, config_targets, names \ {name}, line)

RECURSIVE ScanLines(_, _, _)
\* for line in log.lines() { ... }
ScanLines(acc, config_targets, lines) ==
    IF lines = <<>> THEN acc
    ELSE ScanLines(
             ScanTargets(acc, config_targets, DOMAIN config_targets, Head(lines)),
             config_targets, Tail(lines))

\* the text of the regular expression before and after its capture group:
\* ^\[INFO\] \[stdout\] error\[(E\d+)\]:
RegexHead ==
    <<"[", "I", "N", "F", "O", "]", " ", "[", "s", "t", "d", "o", "u", "t", "]",
      " ", "e", "r", "r", "o", "r", "[">>
RegexTail == <<"]", ":">>

\* ^ in multi-line mode: the start of the text or the place after a line feed
LineStart(log, i) == i = 1 \/ (i > 1 /\ i <= Len(log) + 1 /\ log[i - 1] = NL)

RECURSIVE DigitRun(_, _)
\* \d+ is greedy: the number of digits of log from position i on
DigitRun(log, i) ==
    IF i <= Len(log) /\ log[i] \in Digits THEN 1 + DigitRun(log, i + 1) ELSE 0

\* the capture group of the match that starts at position i, <<>> if the
\* regular expression does not match there
CaptureAt(log, i) ==
    LET e == i + Len(RegexHead)
        d == DigitRun(log, e + 1)
    IN  IF /\ LineStart(log, i)
           /\ OccursAt(log, RegexHead, i)
           /\ e <= Len(log) /\ log[e] = "E"
           /\ d >= 1
           /\ OccursAt(log, RegexTail, e + 1 + d)
        THEN SubSeq(log, e, e + d)
        ELSE <<>>

\* the positions of log at which the regular expression matches
MatchPositions(log) == { i \in 1..Len(log) : CaptureAt(log, i) # <<>> }

\* error_regex.captures_iter(&log): the captures of the successive matches,
\* from the start of the log to its end (a match has no line feed, so none
\* overlaps the next)
Captures(log) ==
    LET at == MatchPositions(log)
    IN  [k \in 1..Cardinality(at) |->
            CaptureAt(log,
                CHOOSE i \in at : Cardinality({ j \in at : j < i }) = k - 1)]

RECURSIVE ScanCapturesDistinct(_, _)
\* a regex loop that counts each distinct captured value once per log
ScanCapturesDistinct(acc, captures) ==
    IF captures = <<>> THEN acc
    ELSE IF \E k \in 2..Len(captures) : captures[k] = Head(captures)
         THEN ScanCapturesDistinct(acc, Tail(captures))
         ELSE ScanCapturesDistinct(
                  [findings |-> Increment(acc.findings, Head(captures)),
                   has_reason |-> TRUE],
                  Tail(captures))

RECURSIVE ScanCaptures(_, _)
\* for needle in error_regex.captures_iter(&log) { ... }
ScanCaptures(acc, captures) ==
    IF captures = <<>> THEN acc
    ELSE ScanCaptures(
             [findings |-> Increment(acc.findings, Head(captures)),
              has_reason |-> TRUE],
             Tail(captures))

\* the literal mechanism on a whole log
ScanLiteral(acc, config_targets, log) ==
    ScanLines(acc, config_targets, Lines(log))

\* the regex mechanism on a whole log
ScanRegex(acc, log) == ScanCaptures(acc, Captures(log))

\* the Ok(log) arm of the fan-in loop: findings after the log, and has_reason
ClassifyLog(before, config_targets, log) ==
    ScanRegex(
        ScanLiteral([findings |-> before, has_reason |-> FALSE],
                    config_targets, log),
        log)

\* config.targets of the model: finding name -> its signatures, each a list
\* of fragments
NameAB == <<"a", "b">>
NameAny == <<"a", "n", "y">>
NameSeq == <<"s", "e", "q">>
ConfigTargets ==
    (NameAB :> << << <<"A">>, <<"B">> >> >>)
    @@ (NameAny :> << << <<"A">> >>, << <<"B">> >>, << <<"B">>, <<"A">> >> >>)
    @@ (NameSeq :> << << <<"B", "A">> >> >>)

\* a line the regular expression matches, capturing code
ErrorLine(code) == RegexHead \o code \o RegexTail
CodeE1 == <<"E", "1">>
CodeE22 == <<"E", "2", "2">>

\* the pieces log texts are made of
TextPieces ==
    { <<"A">>, <<"B">>, <<NL>>, <<CR, NL>>, ErrorLine(CodeE1), ErrorLine(CodeE22) }

\* the log texts of the model
LogTexts == { Concat(ps) : ps \in PieceSeqs(TextPieces, MaxTextPieces) }

\* findings before the log is folded
Findings0 == { <<>>, (NameAB :> 2) @@ (CodeE1 :> 1) }

ClassInit ==
    /\ cl_pc = "lines"
    /\ cl_log \in LogTexts
    /\ cl_findings0 \in Findings0
    /\ cl_findings = cl_findings0
    /\ cl_has_reason = FALSE

ClassIdle ==
    /\ cl_pc = "idle"
    /\ cl_log = <<>>
    /\ cl_findings0 = <<>>
    /\ cl_findings = <<>>
    /\ cl_has_reason = FALSE

\* the for loop over log.lines()
ClassifyLines ==
    /\ cl_pc = "lines"
    /\ LET acc == ScanLiteral([findings |-> cl_findings, has_reason |-> FALSE],
                              ConfigTargets, cl_log)
       IN  /\ cl_findings' = acc.findings
           /\ cl_has_reason' = acc.has_reason
    /\ cl_pc' = "regex"
    /\ UNCHANGED <<cl_log, cl_findings0>>
    /\ UNCHANGED <<pathVars, fetchVars, analysisVars,
                   mainVars, rerunVars, levelVars>>

\* the for loop over error_regex.captures_iter(&log)
ClassifyRegex ==
    /\ cl_pc = "regex"
    /\ LET acc == ScanRegex([findings |-> cl_findings, has_reason |-> cl_has_reason],
                            cl_log)
       IN  /\ cl_findings' = acc.findings
           /\ cl_has_reason' = acc.has_reason
    /\ cl_pc' = "done"
    /\ UNCHANGED <<cl_log, cl_findings0>>
    /\ UNCHANGED <<pathVars, fetchVars, analysisVars,
                   mainVars, rerunVars, levelVars>>

----------------------------------------------------------------------------
(* get_or_download_file: the read-through cache *)

Fetchers == 1..MaxFetchers

CachePaths == { "p1", "p2" }

\* the calls of the model: a cache path and the URL to download from; the
\* first two share their cache path
Requests ==
    { [path |-> "p1", url |-> "u1"],
      [path |-> "p1", url |-> "u2"],
      [path |-> "p2", url |-> "u3"] }

\* what a cache path holds: no file, a file read_to_string cannot read, or a
\* text
Absent == "absent"
Unreadable == "unreadable"

\* the body the remote serves at url with a success status
RemoteBody(url) == "body of " \o url

\* the body of a response with a non-success status
ErrorBody == "error document"

NoResult == [tag |-> "Pending", val |-> ""]
OkResult(content) == [tag |-> "Ok", val |-> content]
ErrResult(kind) == [tag |-> "Err", val |-> kind]

\* a task that has not called yet; read, get, body and write record what each
\* step of the call met
IdleFetch ==
    [pc |-> "idle", path |-> "", url |-> "", read |-> "", gets |-> 0,
     get |-> "", status |-> 0, body |-> "", content |-> "", write |-> "",
     result |-> NoResult]

FetchInit ==
    /\ fs \in [CachePaths -> { Absent, Unreadable, "cached text" }]
    /\ fetch = [t \in Fetchers |-> IdleFetch]

FetchIdle ==
    /\ fs = [p \in CachePaths |-> Absent]
    /\ fetch = <<>>

\* get_or_download_file(cache_path, download_url) is called
CallFetch(t, req) ==
    /\ fetch[t].pc = "idle"
    /\ fetch' = [fetch EXCEPT ![t] =
                     [IdleFetch EXCEPT !.pc = "read", !.path = req.path,
                                       !.url = req.url]]
    /\ UNCHANGED fs
    /\ UNCHANGED <<pathVars, classVars, analysisVars,
                   mainVars, rerunVars, levelVars>>

\* tokio::fs::read_to_string(cache_path).await: Ok(content) is returned at
\* once, any error falls back to downloading
ReadCache(t) ==
    /\ fetch[t].pc = "read"
    /\ IF fs[fetch[t].path] \in { Absent, Unreadable }
       THEN fetch' = [fetch EXCEPT ![t].pc = "get", ![t].read = "failed"]
       ELSE fetch' = [fetch EXCEPT ![t].pc = "returned", ![t].read = "ok",
                                   ![t].content = fs[fetch[t].path],
                                   ![t].result = OkResult(fs[fetch[t].path])]
    /\ UNCHANGED fs
    /\ UNCHANGED <<pathVars, classVars, analysisVars,
                   mainVars, rerunVars, levelVars>>

\* reqwest::get(download_url).await?: a connection error returns the error; a
\* response is taken whatever its status
Get(t) ==
    /\ fetch[t].pc = "get"
    /\ \/ fetch' = [fetch EXCEPT ![t].pc = "returned",
                                  ![t].gets = @ + 1,
                                  ![t].get = "failed",
                                  ![t].result = ErrResult("Reqwest")]
       \/ \E status \in { 200, 404 } :
              fetch' = [fetch EXCEPT ![t].pc = "text",
                                     ![t].gets = @ + 1,
                                     ![t].get = "response",
                                     ![t].status = status,
                                     ![t].body = IF status = 200
                                                 THEN RemoteBody(fetch[t].url)
                                                 ELSE ErrorBody]
    /\ UNCHANGED fs
    /\ UNCHANGED <<pathVars, classVars, analysisVars,
                   mainVars, rerunVars, levelVars>>

\* response.text().await?: the body is read, or the read fails
Text(t) ==
    /\ fetch[t].pc = "text"
    /\ \/ fetch' = [fetch EXCEPT ![t].pc = "returned",
                                  ![t].get = "failed",
                                  ![t].result = ErrResult("Reqwest")]
       \/ fetch' = [fetch EXCEPT ![t].pc = "write",
                                  ![t].content = fetch[t].body]
    /\ UNCHANGED fs
    /\ UNCHANGED <<pathVars, classVars, analysisVars,
                   mainVars, rerunVars, levelVars>>

\* tokio::fs::write(cache_path, &content).await propagated with ? instead of
\* being logged
WriteCachePropagating(t) ==
    /\ fetch[t].pc = "write"
    /\ \/ /\ fs' = [fs EXCEPT ![fetch[t].path] = fetch[t].content]
          /\ fetch' = [fetch EXCEPT ![t].pc = "returned", ![t].write = "ok",
                                     ![t].result = OkResult(fetch[t].content)]
       \/ /\ fs' = fs
          /\ fetch' = [fetch EXCEPT ![t].pc = "returned", ![t].write = "failed",
                                     ![t].result = ErrResult("Io")]
    /\ UNCHANGED <<pathVars, classVars, analysisVars,
                   mainVars, rerunVars, levelVars>>

\* if let Err(err) = tokio::fs::write(cache_path, &content).await { warn };
\* content is returned either way
WriteCache(t) ==
    /\ fetch[t].pc = "write"
    /\ \/ /\ fs' = [fs EXCEPT ![fetch[t].path] = fetch[t].content]
          /\ fetch' = [fetch EXCEPT ![t].pc = "returned", ![t].write = "ok",
                                     ![t].result = OkResult(fetch[t].content)]
       \/ /\ fs' = fs
          /\ fetch' = [fetch EXCEPT ![t].pc = "returned", ![t].write = "failed",
                                     ![t].result = OkResult(fetch[t].content)]
    /\ UNCHANGED <<pathVars, classVars, analysisVars,
                   mainVars, rerunVars, levelVars>>

----------------------------------------------------------------------------
(* run_analysis: the filter, the bounded window and the fan-in loop *)

\* Config::example(): the two expected outcomes; the signatures are those of
\* ConfigTargets
Config ==
    [crate_result |-> "error", run_result |-> "error", targets |-> ConfigTargets]

\* an absent slot of CrateResult.runs
None == [some |-> FALSE, res |-> "", log |-> ""]
Some(res, log) == [some |-> TRUE, res |-> res, log |-> log]

\* the crates manifests are made of
CratePool ==
    { [name |-> "foo", res |-> "error",
       runs |-> << Some("error", "lnone"), None, Some("ok", "llit") >>],
      [name |-> "foo", res |-> "error",
       runs |-> << Some("error", "lerr"), Some("error", "llit") >>],
      [name |-> "bar", res |-> "ok",
       runs |-> << Some("error", "lreg") >>],
      [name |-> "bar", res |-> "error", runs |-> << >>],
      [name |-> "baz", res |-> "error", runs |-> << None >>],
      [name |-> "bar", res |-> "error", runs |-> << Some("error", "lerr") >>],
      [name |-> "foo", res |-> "error",
       runs |-> << Some("error", "lreg"), Some("error", "lnone2") >>] }

\* the manifests of the model
Manifests == PieceSeqs(CratePool, MaxCrates)

\* what get_log returns for a log reference: fixed for the whole analysis
GetLogResult(log) ==
    CASE log = "lerr" -> [ok |-> FALSE, text |-> <<>>]
      [] log = "lnone" -> [ok |-> TRUE, text |-> <<"x", NL, "y">>]
      [] log = "lnone2" -> [ok |-> TRUE, text |-> <<>>]
      [] log = "llit" -> [ok |-> TRUE, text |-> <<"A", "B", NL, "A">>]
      [] log = "lreg" ->
            [ok |-> TRUE,
             text |-> ErrorLine(CodeE1) \o <<NL>> \o ErrorLine(CodeE1)
                      \o <<NL>> \o ErrorLine(CodeE22)]

\* std::thread::available_parallelism().map_or(20, |a| a.get() * 2); 0 stands
\* for the Err case
Parallelism(available) == IF available = 0 THEN 20 ELSE available * 2

RECURSIVE EligibleRuns(_, _)
\* krate.runs.iter().flatten().map(|run| (&krate.name, run))
\*     .filter(|(_, run)| run.res == config.run_result)
EligibleRuns(krate, runs) ==
    IF runs = <<>> THEN <<>>
    ELSE LET run == Head(runs)
             rest == EligibleRuns(krate, Tail(runs))
         IN  IF run.some /\ run.res = Config.run_result
             THEN <<[krate_name |-> krate.name, log |-> run.log]>> \o rest
             ELSE rest

RECURSIVE InterrestingCountingRuns(_)
\* a filter that counts a crate in regressed_count only when one of its runs
\* enters the work list
InterrestingCountingRuns(krates) ==
    IF krates = <<>> THEN [runs |-> <<>>, regressed |-> 0]
    ELSE LET krate == Head(krates)
             rest == InterrestingCountingRuns(Tail(krates))
         IN  IF krate.res = Config.crate_result
             THEN [runs |-> EligibleRuns(krate, krate.runs) \o rest.runs,
                   regressed |->
                       IF EligibleRuns(krate, krate.runs) = <<>>
                       THEN rest.regressed ELSE rest.regressed + 1]
             ELSE rest

RECURSIVE Interresting(_)
\* report.crates.iter().filter(|krate| krate.res == config.crate_result)
\*     .inspect(|_| regressed_count += 1).flat_map(...).filter(...).collect():
\* the work list and regressed_count
Interresting(krates) ==
    IF krates = <<>> THEN [runs |-> <<>>, regressed |-> 0]
    ELSE LET krate == Head(krates)
             rest == Interresting(Tail(krates))
         IN  IF krate.res = Config.crate_result
             THEN [runs |-> EligibleRuns(krate, krate.runs) \o rest.runs,
                   regressed |-> rest.regressed + 1]
             ELSE rest

\* a loop body whose regex arm does not set has_reason
FoldItemRegexNoReason(acc, item, log) ==
    IF log.ok
    THEN LET lit == ScanLiteral([findings |-> acc.findings, has_reason |-> FALSE],
                                Config.targets, log.text)
             c == ScanRegex(lit, log.text)
         IN  [findings |-> c.findings,
              other |-> IF lit.has_reason THEN acc.other
                        ELSE Append(acc.other, <<item.krate_name, item.log>>)]
    ELSE acc

\* the body of the fan-in loop for one completed item: an Ok log is
\* classified and, without a reason, pushed to other; an Err is only logged
FoldItem(acc, item, log) ==
    IF log.ok
    THEN LET c == ClassifyLog(acc.findings, Config.targets, log.text)
         IN  [findings |-> c.findings,
              other |-> IF c.has_reason THEN acc.other
                        ELSE Append(acc.other, <<item.krate_name, item.log>>)]
    ELSE acc

\* acc.entry(krate).or_default().push(run) replaced by an insert that keeps
\* only the last log of a crate
PushOtherOverwriting(acc, entry) == (entry[1] :> <<entry[2]>>) @@ acc

\* acc.entry(krate.to_string()).or_default().push(run.to_string())
PushOther(acc, entry) ==
    IF entry[1] \in DOMAIN acc
    THEN [acc EXCEPT ![entry[1]] = Append(@, entry[2])]
    ELSE acc @@ (entry[1] :> <<entry[2]>>)

RECURSIVE ReportOther(_, _)
\* other.into_iter().fold(BTreeMap::new(), ...)
ReportOther(acc, entries) ==
    IF entries = <<>> THEN acc
    ELSE ReportOther(PushOther(acc, Head(entries)), Tail(entries))

\* no crate has an unclassified log: the empty BTreeMap
NoOther == [k \in {} |-> <<>>]
\* no finding: the empty BTreeMap
NoFindings == <<>>

Pending == [tag |-> "Pending"]

AnalysisInit ==
    /\ ra_pc = "get_report"
    /\ available_parallelism \in { 0, 1, 2 }
    /\ crates \in Manifests
    /\ interresting_runs = <<>>
    /\ regressed_count = 0
    /\ interesting_results_count = 0
    /\ parallelism = 0
    /\ next_run = 1
    /\ in_progress = {}
    /\ returned = {}
    /\ findings = NoFindings
    /\ other = <<>>
    /\ run_pb = 0
    /\ ra_result = Pending
    /\ folded = <<>>
    /\ contributed = {}
    /\ appended = {}

AnalysisIdle ==
    /\ ra_pc = "idle"
    /\ available_parallelism = 0
    /\ crates = <<>>
    /\ interresting_runs = <<>>
    /\ regressed_count = 0
    /\ interesting_results_count = 0
    /\ parallelism = 0
    /\ next_run = 1
    /\ in_progress = {}
    /\ returned = {}
    /\ findings = NoFindings
    /\ other = <<>>
    /\ run_pb = 0
    /\ ra_result = Pending
    /\ folded = <<>>
    /\ contributed = {}
    /\ appended = {}

notAnalysis ==
    <<pathVars, classVars, fetchVars, mainVars, rerunVars, levelVars>>

\* get_report(experiment).await?: the manifest is loaded, or run_analysis
\* returns the transport or decode error
GetReport ==
    /\ ra_pc = "get_report"
    /\ \/ /\ ra_pc' = "filter"
          /\ UNCHANGED ra_result
       \/ \E kind \in { "Reqwest", "Json" } :
              /\ ra_pc' = "failed"
              /\ ra_result' = [tag |-> "Err", kind |-> kind]
    /\ UNCHANGED <<available_parallelism, crates, interresting_runs,
                   regressed_count, interesting_results_count, parallelism,
                   next_run, in_progress, returned, findings, other, run_pb,
                   folded, contributed, appended>>
    /\ UNCHANGED notAnalysis

\* the work list, the two counts, the progress bar and the window size
FilterRuns ==
    /\ ra_pc = "filter"
    /\ LET sel == Interresting(crates)
       IN  /\ interresting_runs' = sel.runs
           /\ regressed_count' = sel.regressed
           /\ interesting_results_count' = Len(sel.runs)
    /\ parallelism' = Parallelism(available_parallelism)
    /\ ra_pc' = "loop"
    /\ UNCHANGED <<available_parallelism, crates, next_run, in_progress,
                   returned, findings, other, run_pb, ra_result, folded,
                   contributed, appended>>
    /\ UNCHANGED notAnalysis

\* batched rounds: a new batch of parallelism items is pulled only once
\* every item of the batch before it has been yielded
CanAdmitBatched ==
    /\ next_run <= Len(interresting_runs)
    /\ Cardinality(in_progress) < parallelism
    /\ \/ in_progress = {}
       \/ (next_run - 1) % parallelism # 0

\* a window that admits one item more than the limit
CanAdmitOneMore ==
    /\ next_run <= Len(interresting_runs)
    /\ Cardinality(in_progress) <= parallelism

\* buffer_unordered(parallelism): the stream pulls the next item while fewer
\* than parallelism futures are in the buffer
CanAdmit ==
    /\ next_run <= Len(interresting_runs)
    /\ Cardinality(in_progress) < parallelism

\* stream.next() fills the window: the next work item enters the buffer and
\* its get_log starts
Admit ==
    /\ ra_pc = "loop"
    /\ CanAdmit
    /\ in_progress' = in_progress \cup { next_run }
    /\ next_run' = next_run + 1
    /\ UNCHANGED <<ra_pc, available_parallelism, crates, interresting_runs,
                   regressed_count, interesting_results_count, parallelism,
                   returned, findings, other, run_pb, ra_result, folded,
                   contributed, appended>>
    /\ UNCHANGED notAnalysis

\* a get_log future that classifies its log itself and merges the result
\* into findings and other when it returns
LogReturnsClassifying(i) ==
    /\ ra_pc = "loop"
    /\ i \in in_progress \ returned
    /\ returned' = returned \cup { i }
    /\ LET acc == FoldItem([findings |-> findings, other |-> other],
                           interresting_runs[i],
                           GetLogResult(interresting_runs[i].log))
       IN  /\ findings' = acc.findings
           /\ other' = acc.other
    /\ UNCHANGED <<ra_pc, available_parallelism, crates, interresting_runs,
                   regressed_count, interesting_results_count, parallelism,
                   next_run, in_progress, run_pb, ra_result, folded,
                   contributed, appended>>
    /\ UNCHANGED notAnalysis

\* the get_log of item i returns, Ok or Err
LogReturns(i) ==
    /\ ra_pc = "loop"
    /\ i \in in_progress \ returned
    /\ returned' = returned \cup { i }
    /\ UNCHANGED <<ra_pc, available_parallelism, crates, interresting_runs,
                   regressed_count, interesting_results_count, parallelism,
                   next_run, in_progress, findings, other, run_pb, ra_result,
                   folded, contributed, appended>>
    /\ UNCHANGED notAnalysis

\* an Err(err) arm that returns the error from run_analysis
FoldAborting(i) ==
    /\ ra_pc = "loop"
    /\ ~CanAdmit
    /\ i \in returned
    /\ LET item == interresting_runs[i]
           log == GetLogResult(item.log)
           acc == FoldItem([findings |-> findings, other |-> other], item, log)
       IN  /\ findings' = acc.findings
           /\ other' = acc.other
           /\ contributed' = IF acc.findings # findings
                             THEN contributed \cup { i } ELSE contributed
           /\ appended' = IF acc.other # other
                          THEN appended \cup { i } ELSE appended
           /\ IF log.ok
              THEN UNCHANGED <<ra_pc, ra_result>>
              ELSE /\ ra_pc' = "failed"
                   /\ ra_result' = [tag |-> "Err", kind |-> "Reqwest"]
    /\ in_progress' = in_progress \ { i }
    /\ returned' = returned \ { i }
    /\ folded' = Append(folded, i)
    /\ run_pb' = run_pb + 1
    /\ UNCHANGED <<available_parallelism, crates, interresting_runs,
                   regressed_count, interesting_results_count, parallelism,
                   next_run>>
    /\ UNCHANGED notAnalysis

\* stream.next() yields completed item i once the window is filled, and the
\* loop body folds it: match log { Ok => ..., Err => warn }; run_pb.inc(1)
Fold(i) ==
    /\ ra_pc = "loop"
    /\ ~CanAdmit
    /\ i \in returned
    /\ LET item == interresting_runs[i]
           log == GetLogResult(item.log)
           acc == FoldItem([findings |-> findings, other |-> other], item, log)
       IN  /\ findings' = acc.findings
           /\ other' = acc.other
           /\ contributed' = IF acc.findings # findings
                             THEN contributed \cup { i } ELSE contributed
           /\ appended' = IF acc.other # other
                          THEN appended \cup { i } ELSE appended
    /\ in_progress' = in_progress \ { i }
    /\ returned' = returned \ { i }
    /\ folded' = Append(folded, i)
    /\ run_pb' = run_pb + 1
    /\ UNCHANGED <<ra_pc, available_parallelism, crates, interresting_runs,
                   regressed_count, interesting_results_count, parallelism,
                   next_run, ra_result>>
    /\ UNCHANGED notAnalysis

\* a loop that ends as soon as the last work item has been started
FinishEarly ==
    /\ ra_pc = "loop"
    /\ next_run > Len(interresting_runs)
    /\ ra_result' =
           [tag |-> "Ok",
            regressed_count |-> regressed_count,
            interesting_results_count |-> interesting_results_count,
            findings |-> findings,
            other |-> ReportOther(NoOther, other),
            expected_krate_result |-> Config.crate_result,
            expected_run_result |-> Config.run_result]
    /\ ra_pc' = "done"
    /\ UNCHANGED <<available_parallelism, crates, interresting_runs,
                   regressed_count, interesting_results_count, parallelism,
                   next_run, in_progress, returned, findings, other, run_pb,
                   folded, contributed, appended>>
    /\ UNCHANGED notAnalysis

\* stream.next() yields None: the AnalysisReport is built and returned
Finish ==
    /\ ra_pc = "loop"
    /\ next_run > Len(interresting_runs)
    /\ in_progress = {}
    /\ ra_result' =
           [tag |-> "Ok",
            regressed_count |-> regressed_count,
            interesting_results_count |-> interesting_results_count,
            findings |-> findings,
            other |-> ReportOther(NoOther, other),
            expected_krate_result |-> Config.crate_result,
            expected_run_result |-> Config.run_result]
    /\ ra_pc' = "done"
    /\ UNCHANGED <<available_parallelism, crates, interresting_runs,
                   regressed_count, interesting_results_count, parallelism,
                   next_run, in_progress, returned, findings, other, run_pb,
                   folded, contributed, appended>>
    /\ UNCHANGED notAnalysis

----------------------------------------------------------------------------
(* main: the configuration, the experiments and their report files *)

\* .buffered(5)
OuterWindow == 5

\* an experiment's future: where it is, and what it returned once finished
QueuedExperiment == [pc |-> "queued", result |-> ""]

MainInit ==
    /\ m_pc = "config"
    /\ config_file \in { "absent", "malformed", "unreadable", "valid" }
    /\ args \in 0..MaxArgs
    /\ experiments = [e \in 1..args |-> QueuedExperiment]
    /\ next_experiment = 1
    /\ reports = <<>>
    /\ report_file = [e \in 1..args |-> "none"]
    /\ main_result = [tag |-> "Pending", kind |-> ""]

MainIdle ==
    /\ m_pc = "idle"
    /\ config_file = "absent"
    /\ args = 0
    /\ experiments = <<>>
    /\ next_experiment = 1
    /\ reports = <<>>
    /\ report_file = <<>>
    /\ main_result = [tag |-> "Pending", kind |-> ""]

notMain ==
    <<pathVars, classVars, fetchVars, analysisVars, rerunVars, levelVars>>

\* main going on with the default it has just written for an absent
\* configuration file, instead of returning MissingConfig
LoadConfigProceeding ==
    /\ m_pc = "config"
    /\ \/ /\ config_file = "valid"
          /\ m_pc' = "stream"
          /\ UNCHANGED <<config_file, main_result>>
       \/ /\ config_file = "malformed"
          /\ m_pc' = "returned"
          /\ main_result' = [tag |-> "Err", kind |-> "TomlDeserialization"]
          /\ UNCHANGED config_file
       \/ /\ config_file = "absent"
          /\ \/ /\ config_file' = "default"
                /\ m_pc' = "stream"
                /\ UNCHANGED main_result
             \/ /\ config_file' = "absent"
                /\ m_pc' = "returned"
                /\ main_result' = [tag |-> "Panic", kind |-> "unwrap"]
       \/ /\ config_file = "unreadable"
          /\ m_pc' = "returned"
          /\ main_result' = [tag |-> "Err", kind |-> "Io"]
          /\ UNCHANGED config_file
    /\ UNCHANGED <<args, experiments, next_experiment, reports, report_file>>
    /\ UNCHANGED notMain

\* the configuration file is read: a valid one is used, a malformed or
\* unreadable one returns its error, an absent one is replaced by the default
\* and returns MissingConfig (a failed write of the default panics)
LoadConfig ==
    /\ m_pc = "config"
    /\ \/ /\ config_file = "valid"
          /\ m_pc' = "stream"
          /\ UNCHANGED <<config_file, main_result>>
       \/ /\ config_file = "malformed"
          /\ m_pc' = "returned"
          /\ main_result' = [tag |-> "Err", kind |-> "TomlDeserialization"]
          /\ UNCHANGED config_file
       \/ /\ config_file = "absent"
          /\ \/ /\ config_file' = "default"
                /\ main_result' = [tag |-> "Err", kind |-> "MissingConfig"]
             \/ /\ config_file' = "absent"
                /\ main_result' = [tag |-> "Panic", kind |-> "unwrap"]
          /\ m_pc' = "returned"
       \/ /\ config_file = "unreadable"
          /\ m_pc' = "returned"
          /\ main_result' = [tag |-> "Err", kind |-> "Io"]
          /\ UNCHANGED config_file
    /\ UNCHANGED <<args, experiments, next_experiment, reports, report_file>>
    /\ UNCHANGED notMain

\* the experiments in the buffer of the stream: started and not yet yielded
InBuffer == { e \in 1..args : Len(reports) < e /\ e < next_experiment }

\* buffered(5) pulls the next argument while fewer than 5 futures and
\* finished outputs are in its buffer
CanAdmitExperiment ==
    /\ next_experiment <= args
    /\ Cardinality(InBuffer) < OuterWindow

\* the stream starts the future of the next experiment: run_analysis begins
\* with get_report
AdmitExperiment ==
    /\ m_pc = "stream"
    /\ CanAdmitExperiment
    /\ experiments' = [experiments EXCEPT ![next_experiment].pc = "get_report"]
    /\ next_experiment' = next_experiment + 1
    /\ UNCHANGED <<m_pc, config_file, args, reports, report_file, main_result>>
    /\ UNCHANGED notMain

\* run_analysis: get_report(experiment).await? loads the manifest or returns
\* the transport or decode error
ExperimentGetReport(e) ==
    /\ m_pc = "stream"
    /\ experiments[e].pc = "get_report"
    /\ \/ experiments' = [experiments EXCEPT ![e].pc = "analysis"]
       \/ \E kind \in { "Reqwest", "Json" } :
              experiments' = [experiments EXCEPT ![e].pc = "finished",
                                                 ![e].result = kind]
    /\ UNCHANGED <<m_pc, config_file, args, next_experiment, reports,
                   report_file, main_result>>
    /\ UNCHANGED notMain

\* run_analysis after the manifest: the filter and the fan-in loop end and
\* the AnalysisReport is returned
ExperimentAnalysis(e) ==
    /\ m_pc = "stream"
    /\ experiments[e].pc = "analysis"
    /\ experiments' = [experiments EXCEPT ![e].pc = "create"]
    /\ UNCHANGED <<m_pc, config_file, args, next_experiment, reports,
                   report_file, main_result>>
    /\ UNCHANGED notMain

\* tokio::fs::File::create(&path).await?
ExperimentCreateFile(e) ==
    /\ m_pc = "stream"
    /\ experiments[e].pc = "create"
    /\ \/ /\ experiments' = [experiments EXCEPT ![e].pc = "write"]
          /\ report_file' = [report_file EXCEPT ![e] = "created"]
       \/ /\ experiments' = [experiments EXCEPT ![e].pc = "finished",
                                                ![e].result = "Io"]
          /\ UNCHANGED report_file
    /\ UNCHANGED <<m_pc, config_file, args, next_experiment, reports, main_result>>
    /\ UNCHANGED notMain

\* report.print_report(&mut buffered).await?; buffered.flush().await?
ExperimentWriteReport(e) ==
    /\ m_pc = "stream"
    /\ experiments[e].pc = "write"
    /\ \/ /\ experiments' = [experiments EXCEPT ![e].pc = "finished",
                                                ![e].result = "Ok"]
          /\ report_file' = [report_file EXCEPT ![e] = "written"]
       \/ /\ experiments' = [experiments EXCEPT ![e].pc = "finished",
                                                ![e].result = "Io"]
          /\ UNCHANGED report_file
    /\ UNCHANGED <<m_pc, config_file, args, next_experiment, reports, main_result>>
    /\ UNCHANGED notMain

\* a stream consumed with try_collect: the first Err ends main at once
YieldReportAborting ==
    /\ m_pc = "stream"
    /\ ~CanAdmitExperiment
    /\ Len(reports) < args
    /\ experiments[Len(reports) + 1].pc = "finished"
    /\ reports' = Append(reports, experiments[Len(reports) + 1].result)
    /\ IF experiments[Len(reports) + 1].result = "Ok"
       THEN UNCHANGED <<m_pc, main_result>>
       ELSE /\ m_pc' = "returned"
            /\ main_result' =
                   [tag |-> "Err", kind |-> experiments[Len(reports) + 1].result]
    /\ UNCHANGED <<config_file, args, experiments, next_experiment, report_file>>
    /\ UNCHANGED notMain

\* buffered yields the results in argument order, and collect keeps each one,
\* Ok or Err
YieldReport ==
    /\ m_pc = "stream"
    /\ ~CanAdmitExperiment
    /\ Len(reports) < args
    /\ experiments[Len(reports) + 1].pc = "finished"
    /\ reports' = Append(reports, experiments[Len(reports) + 1].result)
    /\ UNCHANGED <<m_pc, main_result>>
    /\ UNCHANGED <<config_file, args, experiments, next_experiment, report_file>>
    /\ UNCHANGED notMain

\* the first result of reports that is an error, 0 if none is
FirstError(results) ==
    IF \E k \in 1..Len(results) : results[k] # "Ok"
    THEN CHOOSE k \in 1..Len(results) :
             /\ results[k] # "Ok"
             /\ \A j \in 1..(k - 1) : results[j] = "Ok"
    ELSE 0

\* the stream has ended: for report in reports { report?; } Ok(())
ReturnMain ==
    /\ m_pc = "stream"
    /\ Len(reports) = args
    /\ m_pc' = "returned"
    /\ main_result' =
           IF FirstError(reports) = 0
           THEN [tag |-> "Ok", kind |-> ""]
           ELSE [tag |-> "Err", kind |-> reports[FirstError(reports)]]
    /\ UNCHANGED <<config_file, args, experiments, next_experiment, reports,
                   report_file>>
    /\ UNCHANGED notMain

----------------------------------------------------------------------------
(* run_analysis twice over one cache directory: get_report, get_log and     *)
(* get_or_download_file write and read the files of ./results               *)

RECURSIVE ToStr(_)
\* a text as one string: the name of a file or of a remote object
ToStr(s) ==
    IF Len(s) = 0 THEN ""
    ELSE IF Len(s) = 1 THEN s[1]
    ELSE LET mid == Len(s) \div 2
         IN  ToStr(SubSeq(s, 1, mid)) \o ToStr(SubSeq(s, mid + 1, Len(s)))

ResultsJson == <<"/", "r", "e", "s", "u", "l", "t", "s", ".", "j", "s", "o", "n">>

\* format!("./results/{expriment}/results.json")
ReportPath(expriment) ==
    SubSeq(ResultsDir, 1, Len(ResultsDir) - 1) \o <<"/">> \o expriment
    \o ResultsJson

\* format!("https://crater-reports.s3.amazonaws.com/{expriment}/results.json")
ReportUrl(expriment) == BaseUrl \o expriment \o ResultsJson

\* the experiment that is analysed twice
RerunExperiment == <<"e">>

\* the crate of its runs
RerunCrate == "foo"

\* the log references its manifest may list
RerunLogs == { <<"a">>, <<"a", ".", ".">>, <<"a", "/", "d", "o", "t", ".">> }

\* the work lists: at most MaxRerunLogs distinct log references
RerunWorkLists ==
    { ls \in PieceSeqs(RerunLogs, MaxRerunLogs) :
          /\ ls # <<>>
          /\ \A i, j \in 1..Len(ls) : ls[i] = ls[j] => i = j }

\* the call get_report makes
ReportRequest ==
    [path |-> ToStr(ReportPath(RerunExperiment)),
     url |-> ToStr(ReportUrl(RerunExperiment))]

\* the call get_log makes for a log reference
LogRequest(log) ==
    [path |-> ToStr(LogPath(RerunExperiment, log)),
     url |-> ToStr(LogUrl(RerunExperiment, log))]

\* the files of the cache directory the two runs may touch
RerunPaths ==
    { ReportRequest.path } \cup { LogRequest(l).path : l \in RerunLogs }

\* the log text the remote serves for each log reference
RemoteLogText(log) ==
    CASE log = <<"a">> -> <<"x", NL, "y">>
      [] log = <<"a", ".", ".">> -> <<"A", "B", NL, "A">>
      [] log = <<"a", "/", "d", "o", "t", ".">> ->
            ErrorLine(CodeE1) \o <<NL>> \o ErrorLine(CodeE22)

\* the text that a downloaded or cached content stands for; an error
\* document is text like any other and holds no signature
ContentText(content) ==
    IF \E l \in RerunLogs : content = RemoteBody(LogRequest(l).url)
    THEN RemoteLogText(CHOOSE l \in RerunLogs :
                           content = RemoteBody(LogRequest(l).url))
    ELSE <<"e", "r", "r", "o", "r">>

\* what get_log hands to the fan-in loop for a returned call
LogOfFetch(f) ==
    IF f.result.tag = "Ok"
    THEN [ok |-> TRUE, text |-> ContentText(f.result.val)]
    ELSE [ok |-> FALSE, text |-> <<>>]

\* the window of the experiment: available_parallelism() = 1
RerunParallelism == Parallelism(1)

RerunInit ==
    /\ rr_pc = "get_report"
    /\ rr_run = 1
    /\ rr_logs \in RerunWorkLists
    /\ rr_next_run = 1
    /\ rr_in_progress = {}
    /\ rr_findings = NoFindings
    /\ rr_other = <<>>
    /\ rr_classified = [i \in 1..Len(rr_logs) |-> ""]
    /\ rr_reports = <<>>
    /\ fs = [p \in RerunPaths |-> Absent]
    /\ fetch = [t \in 0..Len(rr_logs) |-> IdleFetch]

RerunIdle ==
    /\ rr_pc = "idle"
    /\ rr_run = 0
    /\ rr_logs = <<>>
    /\ rr_next_run = 1
    /\ rr_in_progress = {}
    /\ rr_findings = NoFindings
    /\ rr_other = <<>>
    /\ rr_classified = <<>>
    /\ rr_reports = <<>>

notRerun == <<pathVars, classVars, analysisVars, mainVars, levelVars>>

\* get_report calls get_or_download_file for the manifest
RerunGetReport ==
    /\ rr_pc = "get_report"
    /\ fetch' = [fetch EXCEPT ![0] =
                     [IdleFetch EXCEPT !.pc = "read",
                                       !.path = ReportRequest.path,
                                       !.url = ReportRequest.url]]
    /\ rr_pc' = "manifest"
    /\ UNCHANGED <<fs, rr_run, rr_logs, rr_next_run, rr_in_progress,
                   rr_findings, rr_other, rr_classified, rr_reports>>
    /\ UNCHANGED notRerun

\* get_or_download_file(..).await? and serde_json::from_str(&results)?: the
\* manifest served by the remote decodes to the work list, anything else
\* ends run_analysis with the error
RerunManifest ==
    /\ rr_pc = "manifest"
    /\ fetch[0].pc = "returned"
    /\ IF fetch[0].result = OkResult(RemoteBody(ReportRequest.url))
       THEN /\ rr_pc' = "loop"
            /\ UNCHANGED rr_reports
       ELSE /\ rr_pc' = "done"
            /\ rr_reports' =
                   Append(rr_reports,
                          [tag |-> "Err",
                           kind |-> IF fetch[0].result.tag = "Ok"
                                    THEN "Json" ELSE fetch[0].result.val])
    /\ UNCHANGED <<fs, fetch, rr_run, rr_logs, rr_next_run, rr_in_progress,
                   rr_findings, rr_other, rr_classified>>
    /\ UNCHANGED notRerun

\* buffer_unordered(parallelism): room in the window and an item left
RerunCanAdmit ==
    /\ rr_next_run <= Len(rr_logs)
    /\ Cardinality(rr_in_progress) < RerunParallelism

\* the next work item enters the window: get_log derives the path and the
\* URL and calls get_or_download_file
RerunAdmit ==
    /\ rr_pc = "loop"
    /\ RerunCanAdmit
    /\ rr_in_progress' = rr_in_progress \cup { rr_next_run }
    /\ fetch' = [fetch EXCEPT ![rr_next_run] =
                     [IdleFetch EXCEPT
                          !.pc = "read",
                          !.path = LogRequest(rr_logs[rr_next_run]).path,
                          !.url = LogRequest(rr_logs[rr_next_run]).url]]
    /\ rr_next_run' = rr_next_run + 1
    /\ UNCHANGED <<fs, rr_pc, rr_run, rr_logs, rr_findings, rr_other,
                   rr_classified, rr_reports>>
    /\ UNCHANGED notRerun

\* the fan-in loop folds the returned item i; rr_classified keeps the content
\* that was classified for it
RerunFold(i) ==
    /\ rr_pc = "loop"
    /\ ~RerunCanAdmit
    /\ i \in rr_in_progress
    /\ fetch[i].pc = "returned"
    /\ LET item == [krate_name |-> RerunCrate, log |-> rr_logs[i]]
           log == LogOfFetch(fetch[i])
           acc == FoldItem([findings |-> rr_findings, other |-> rr_other],
                           item, log)
       IN  /\ rr_findings' = acc.findings
           /\ rr_other' = acc.other
           /\ rr_classified' =
                  [rr_classified EXCEPT
                       ![i] = IF log.ok THEN fetch[i].result.val ELSE "dropped"]
    /\ rr_in_progress' = rr_in_progress \ { i }
    /\ UNCHANGED <<fs, fetch, rr_pc, rr_run, rr_logs, rr_next_run, rr_reports>>
    /\ UNCHANGED notRerun

\* the calls of this run that sent a request to the remote
RerunRequests == { t \in DOMAIN fetch : fetch[t].gets > 0 }

\* the calls of this run that downloaded their file with a success status
\* and wrote it to the cache
RerunPersisted ==
    { t \in DOMAIN fetch :
          /\ fetch[t].get = "response"
          /\ fetch[t].status = 200
          /\ fetch[t].write = "ok" }

\* the AnalysisReport of this run; requests and persisted are bookkeeping of
\* the calls it made
RerunReport ==
    [tag |-> "Ok",
     findings |-> rr_findings,
     other |-> ReportOther(NoOther, rr_other),
     requests |-> RerunRequests,
     persisted |-> RerunPersisted]

\* the first run_analysis returns its report and the experiment is analysed
\* again with the cache directory as the first run left it
RerunAgain ==
    /\ rr_pc = "loop"
    /\ rr_run = 1
    /\ rr_next_run > Len(rr_logs)
    /\ rr_in_progress = {}
    /\ rr_reports' = Append(rr_reports, RerunReport)
    /\ rr_run' = 2
    /\ rr_pc' = "get_report"
    /\ rr_next_run' = 1
    /\ rr_findings' = NoFindings
    /\ rr_other' = <<>>
    /\ rr_classified' = [i \in 1..Len(rr_logs) |-> ""]
    /\ fetch' = [t \in 0..Len(rr_logs) |-> IdleFetch]
    /\ UNCHANGED <<fs, rr_logs, rr_in_progress>>
    /\ UNCHANGED notRerun

\* the second run_analysis returns its report
RerunFinish ==
    /\ rr_pc = "loop"
    /\ rr_run = 2
    /\ rr_next_run > Len(rr_logs)
    /\ rr_in_progress = {}
    /\ rr_reports' = Append(rr_reports, RerunReport)
    /\ rr_pc' = "done"
    /\ UNCHANGED <<fs, fetch, rr_run, rr_logs, rr_next_run, rr_in_progress,
                   rr_findings, rr_other, rr_classified>>
    /\ UNCHANGED notRerun

----------------------------------------------------------------------------
(* main and run_analysis together: buffered(5) over the experiments, and    *)
(* buffer_unordered(parallelism) over the logs of each experiment           *)

\* the window of every experiment: available_parallelism() = 1
LevelParallelism == Parallelism(1)

\* an experiment: its future's position, the next work item of its stream
\* and the number of get_log futures in its buffer
LevelQueued == [pc |-> "queued", next_run |-> 1, in_progress |-> 0]

LevelInit ==
    /\ lv_experiments = [e \in 1..MaxLevelArgs |-> LevelQueued]
    /\ lv_next_experiment = 1
    /\ lv_yielded = 0

LevelIdle ==
    /\ lv_experiments = <<>>
    /\ lv_next_experiment = 1
    /\ lv_yielded = 0

notLevel ==
    <<pathVars, classVars, fetchVars, analysisVars, mainVars, rerunVars>>

\* buffered(5): fewer than 5 futures and finished outputs in the buffer
LevelCanAdmitExperiment ==
    /\ lv_next_experiment <= Len(lv_experiments)
    /\ lv_next_experiment - 1 - lv_yielded < OuterWindow

\* the outer stream starts run_analysis of the next experiment
LevelAdmitExperiment ==
    /\ LevelCanAdmitExperiment
    /\ lv_experiments' =
           [lv_experiments EXCEPT ![lv_next_experiment].pc = "analysis"]
    /\ lv_next_experiment' = lv_next_experiment + 1
    /\ UNCHANGED lv_yielded
    /\ UNCHANGED notLevel

\* the get_log futures in the buffers of all experiments
LevelInFlight(exps) ==
    LET RECURSIVE Sum(_)
        Sum(k) == IF k = 0 THEN 0 ELSE exps[k].in_progress + Sum(k - 1)
    IN  Sum(Len(exps))

\* one limit of parallelism log fetches shared by all experiments
LevelCanAdmitLogGlobal(e) ==
    /\ lv_experiments[e].next_run <= MaxLevelRuns
    /\ LevelInFlight(lv_experiments) < LevelParallelism

\* buffer_unordered(parallelism) of experiment e: its own buffer has room and
\* its work list an item left
LevelCanAdmitLog(e) ==
    /\ lv_experiments[e].next_run <= MaxLevelRuns
    /\ lv_experiments[e].in_progress < LevelParallelism

\* the stream of experiment e starts the get_log of its next work item
LevelAdmitLog(e) ==
    /\ lv_experiments[e].pc = "analysis"
    /\ LevelCanAdmitLog(e)
    /\ lv_experiments' =
           [lv_experiments EXCEPT ![e].next_run = @ + 1,
                                  ![e].in_progress = @ + 1]
    /\ UNCHANGED <<lv_next_experiment, lv_yielded>>
    /\ UNCHANGED notLevel

\* the loop of experiment e takes a completed get_log out of its buffer
LevelFoldLog(e) ==
    /\ lv_experiments[e].pc = "analysis"
    /\ ~LevelCanAdmitLog(e)
    /\ lv_experiments[e].in_progress > 0
    /\ lv_experiments' = [lv_experiments EXCEPT ![e].in_progress = @ - 1]
    /\ UNCHANGED <<lv_next_experiment, lv_yielded>>
    /\ UNCHANGED notLevel

\* the stream of experiment e has ended: run_analysis returns, the report is
\* written and the future of the experiment is finished
LevelFinishExperiment(e) ==
    /\ lv_experiments[e].pc = "analysis"
    /\ lv_experiments[e].next_run > MaxLevelRuns
    /\ lv_experiments[e].in_progress = 0
    /\ lv_experiments' = [lv_experiments EXCEPT ![e].pc = "finished"]
    /\ UNCHANGED <<lv_next_experiment, lv_yielded>>
    /\ UNCHANGED notLevel

\* buffered yields the finished experiments in argument order
LevelYield ==
    /\ ~LevelCanAdmitExperiment
    /\ lv_yielded < Len(lv_experiments)
    /\ lv_experiments[lv_yielded + 1].pc = "finished"
    /\ lv_yielded' = lv_yielded + 1
    /\ UNCHANGED <<lv_experiments, lv_next_experiment>>
    /\ UNCHANGED notLevel

----------------------------------------------------------------------------
(* The specifications *)

InitFetch ==
    FetchInit /\ PathIdle /\ ClassIdle /\ AnalysisIdle
    /\ MainIdle /\ RerunIdle /\ LevelIdle

FetchNext ==
    \E t \in Fetchers :
        \/ \E req \in Requests : CallFetch(t, req)
        \/ ReadCache(t)
        \/ Get(t)
        \/ Text(t)
        \/ WriteCache(t)

SpecFetch == InitFetch /\ [][FetchNext]_vars

Init ==
    AnalysisInit /\ PathIdle /\ ClassIdle /\ FetchIdle
    /\ MainIdle /\ RerunIdle /\ LevelIdle

Next ==
    \/ GetReport
    \/ FilterRuns
    \/ Admit
    \/ \E i \in in_progress : LogReturns(i)
    \/ \E i \in returned : Fold(i)
    \/ Finish

Spec == Init /\ [][Next]_vars

\* the step of the fan-in loop that folds a returned item, told by folded
\* alone: within Next it is taken, and enabled, exactly when some Fold(i) is
FoldStep ==
    /\ ra_pc = "loop"
    /\ ~CanAdmit
    /\ \E i \in returned : folded' = Append(folded, i)

\* run_analysis under fair scheduling: the runtime polls the task of
\* run_analysis whenever it can take a step, and every started get_log
\* eventually returns
Fairness ==
    /\ WF_vars(GetReport)
    /\ WF_vars(FilterRuns)
    /\ WF_vars(Admit)
    /\ WF_vars(\E i \in in_progress : LogReturns(i))
    /\ WF_folded(FoldStep)
    /\ WF_vars(Finish)

FairSpec == Init /\ [][Next]_vars /\ Fairness

InitMain ==
    MainInit /\ PathIdle /\ ClassIdle /\ FetchIdle
    /\ AnalysisIdle /\ RerunIdle /\ LevelIdle

MainNext ==
    \/ LoadConfig
    \/ AdmitExperiment
    \/ \E e \in 1..args : ExperimentGetReport(e)
    \/ \E e \in 1..args : ExperimentAnalysis(e)
    \/ \E e \in 1..args : ExperimentCreateFile(e)
    \/ \E e \in 1..args : ExperimentWriteReport(e)
    \/ YieldReport
    \/ ReturnMain

SpecMain == InitMain /\ [][MainNext]_vars

InitPath ==
    PathInit /\ ClassIdle /\ FetchIdle /\ AnalysisIdle
    /\ MainIdle /\ RerunIdle /\ LevelIdle

PathNext == get_log

SpecPath == InitPath /\ [][PathNext]_vars

InitClassify ==
    ClassInit /\ PathIdle /\ FetchIdle /\ AnalysisIdle
    /\ MainIdle /\ RerunIdle /\ LevelIdle

ClassNext == ClassifyLines \/ ClassifyRegex

SpecClassify == InitClassify /\ [][ClassNext]_vars

InitRerun ==
    RerunInit /\ PathIdle /\ ClassIdle /\ AnalysisIdle
    /\ MainIdle /\ LevelIdle

RerunNext ==
    \/ RerunGetReport
    \/ RerunManifest
    \/ RerunAdmit
    \/ \E t \in DOMAIN fetch : ReadCache(t)
    \/ \E t \in DOMAIN fetch : Get(t)
    \/ \E t \in DOMAIN fetch : Text(t)
    \/ \E t \in DOMAIN fetch : WriteCache(t)
    \/ \E i \in rr_in_progress : RerunFold(i)
    \/ RerunAgain
    \/ RerunFinish

SpecRerun == InitRerun /\ [][RerunNext]_vars

InitLevels ==
    LevelInit /\ PathIdle /\ ClassIdle /\ FetchIdle /\ AnalysisIdle /\ MainIdle
    /\ RerunIdle

LevelNext ==
    \/ LevelAdmitExperiment
    \/ \E e \in 1..MaxLevelArgs : LevelAdmitLog(e)
    \/ \E e \in 1..MaxLevelArgs : LevelFoldLog(e)
    \/ \E e \in 1..MaxLevelArgs : LevelFinishExperiment(e)
    \/ LevelYield

SpecLevels == InitLevels /\ [][LevelNext]_vars

----------------------------------------------------------------------------
(* The claims *)

\* the count of a finding name, 0 while the map has no entry for it
Count(map, name) == IF name \in DOMAIN map THEN map[name] ELSE 0

(* run_analysis *)

\* C1: the log fetches started and not yet returned, and the futures held by
\* the window, never number more than the concurrency limit.
C1_WindowBound ==
    ra_pc \in { "loop", "done" } =>
        /\ Cardinality(in_progress \ returned) <= parallelism
        /\ Cardinality(in_progress) <= parallelism
        /\ parallelism = Parallelism(available_parallelism)

\* C1 witness: the window is full of running fetches while items wait.
C1_Witness ==
    /\ ra_pc = "loop"
    /\ Cardinality(in_progress \ returned) = parallelism
    /\ next_run <= Len(interresting_runs)

\* the work items whose get_log returns an error
FailedRuns ==
    { i \in 1..Len(interresting_runs) : ~GetLogResult(interresting_runs[i].log).ok }

\* the items folded so far
FoldedSet == { folded[k] : k \in 1..Len(folded) }

\* C2: a failed log fetch never aborts the batch and is dropped: run_analysis
\* fails only before the work list exists; when it returns, it returns Ok,
\* every work item has been folded exactly once, and the count of eligible
\* runs includes the failed ones; a failed run changes neither findings nor
\* other.
C2_FailedFetchIsDropped ==
    /\ ra_pc = "failed" => (parallelism = 0 /\ folded = <<>> /\ run_pb = 0)
    /\ ra_pc = "done" =>
          /\ ra_result.tag = "Ok"
          /\ Len(folded) = Len(interresting_runs)
          /\ FoldedSet = 1..Len(interresting_runs)
          /\ run_pb = Len(interresting_runs)
          /\ ra_result.interesting_results_count = Len(interresting_runs)
    /\ \A i \in FailedRuns : i \notin contributed /\ i \notin appended
    /\ \A k \in 1..Len(other) : GetLogResult(other[k][2]).ok

\* C2 witness: a batch returned with a failed fetch folded before a good one.
C2_Witness ==
    /\ ra_pc = "done"
    /\ \E k \in 1..Len(folded) :
          /\ folded[k] \in FailedRuns
          /\ \E m \in (k + 1)..Len(folded) : folded[m] \in contributed

RECURSIVE TotalEntries(_)
\* the number of log references over all the lists of an other map
TotalEntries(map) ==
    IF DOMAIN map = {} THEN 0
    ELSE LET k == CHOOSE x \in DOMAIN map : TRUE
         IN  Len(map[k]) + TotalEntries([x \in (DOMAIN map) \ {k} |-> map[x]])

\* C3 as claimed: in the report, every eligible run either contributed to
\* findings or was appended to other, never both and never neither, and the
\* entries of other plus the runs with a finding number eligibleRunCount.
C3_EveryRunInExactlyOneGroup ==
    ra_pc = "done" =>
        /\ \A i \in 1..ra_result.interesting_results_count :
               (i \in contributed) # (i \in appended)
        /\ TotalEntries(ra_result.other) + Cardinality(contributed)
               = ra_result.interesting_results_count

\* C3 amended: every eligible run whose log fetch succeeded is in exactly one
\* of the two groups, a run whose fetch failed is in neither, and the entries
\* of other plus the runs with a finding plus the runs whose fetch failed
\* number eligibleRunCount.
C3_EveryFetchedRunInExactlyOneGroup ==
    ra_pc = "done" =>
        /\ \A i \in 1..ra_result.interesting_results_count :
               IF i \in FailedRuns
               THEN i \notin contributed /\ i \notin appended
               ELSE (i \in contributed) # (i \in appended)
        /\ TotalEntries(ra_result.other) + Cardinality(contributed)
               + Cardinality(FailedRuns)
               = ra_result.interesting_results_count

\* C3 witness: a report over a run with findings, an unclassified run and a
\* failed fetch.
C3_Witness ==
    /\ ra_pc = "done"
    /\ contributed # {}
    /\ appended # {}
    /\ FailedRuns # {}

RECURSIVE FoldInOrder(_, _)
\* the work list folded item by item in manifest order
FoldInOrder(acc, items) ==
    IF items = <<>> THEN acc
    ELSE FoldInOrder(FoldItem(acc, Head(items), GetLogResult(Head(items).log)),
                     Tail(items))

\* the elements of a sequence with their multiplicities
SeqToBag(seq) ==
    [x \in { seq[k] : k \in 1..Len(seq) } |->
        Cardinality({ k \in 1..Len(seq) : seq[k] = x })]

\* C4: whatever the order of completion, the report holds the findings of the
\* work list folded in manifest order, and for every unit the same
\* unclassified log references as a multiset.
C4_ReportIndependentOfCompletionOrder ==
    ra_pc = "done" =>
        LET seq == FoldInOrder([findings |-> NoFindings, other |-> <<>>],
                               interresting_runs)
            seqOther == ReportOther(NoOther, seq.other)
        IN  /\ ra_result.findings = seq.findings
            /\ DOMAIN ra_result.other = DOMAIN seqOther
            /\ \A unit \in DOMAIN seqOther :
                   SeqToBag(ra_result.other[unit]) = SeqToBag(seqOther[unit])

\* C4 witness: a report whose items were folded out of manifest order and in
\* which one unit's unclassified list is not in manifest order.
C4_Witness ==
    /\ ra_pc = "done"
    /\ \E k \in 1..Len(folded) : folded[k] # k
    /\ ra_result.findings # NoFindings
    /\ \E unit \in DOMAIN ra_result.other :
          ra_result.other[unit]
              # ReportOther(NoOther,
                    FoldInOrder([findings |-> NoFindings, other |-> <<>>],
                                interresting_runs).other)[unit]

(* main *)

\* the experiments whose manifest could not be loaded
ManifestFailed == { e \in 1..args : experiments[e].result \in { "Reqwest", "Json" } }

\* the experiments that returned an error
FailedExperiments ==
    { e \in 1..args : experiments[e].pc = "finished" /\ experiments[e].result # "Ok" }

\* C5: when main returns after its stream of experiments, every experiment
\* has finished, each one that did not fail has its report file written, none
\* whose manifest failed to load has a report file, and the result of main is
\* the error of the first failed experiment in argument order, Ok if none
\* failed; no report file exists for an experiment that has not got its
\* manifest.
C5_FailureDoesNotAbortOthers ==
    /\ (m_pc = "returned" /\ config_file = "valid") =>
          /\ \A e \in 1..args : experiments[e].pc = "finished"
          /\ \A e \in 1..args :
                experiments[e].result = "Ok" => report_file[e] = "written"
          /\ IF FailedExperiments = {}
             THEN main_result = [tag |-> "Ok", kind |-> ""]
             ELSE main_result =
                      [tag |-> "Err",
                       kind |-> experiments[
                           CHOOSE e \in FailedExperiments :
                               \A d \in FailedExperiments : e <= d].result]
    /\ \A e \in DOMAIN experiments :
          (e \in ManifestFailed \/ experiments[e].pc \in { "queued", "get_report" })
              => report_file[e] = "none"

\* C5 witness: main returned the manifest error of the first experiment after
\* a later experiment had its report written and another failed to write.
C5_Witness ==
    /\ m_pc = "returned"
    /\ args >= 3
    /\ experiments[1].result = "Json"
    /\ experiments[2].result = "Ok" /\ report_file[2] = "written"
    /\ experiments[3].result = "Io"
    /\ main_result = [tag |-> "Err", kind |-> "Json"]

(* get_or_download_file *)

\* C6: get_or_download_file is a read-through cache. A call makes at most one
\* GET; a call that returned after a successful cache read made none and one
\* after a failed cache read made exactly one; it returned an error only when
\* the cache read and the GET both failed; a failed write of the cache file
\* leaves the result Ok with the downloaded body. A readable cache file is
\* returned as it is, without any request.
C6_ReadThroughCache ==
    /\ [](\A t \in DOMAIN fetch :
            LET f == fetch[t]
            IN  /\ f.gets <= 1
                /\ f.pc = "returned" =>
                      /\ f.read = "ok" => (f.gets = 0 /\ f.result.tag = "Ok")
                      /\ f.read = "failed" => f.gets = 1
                      /\ f.result.tag = "Err" =>
                             (f.read = "failed" /\ f.get = "failed")
                      /\ f.write = "failed" => f.result = OkResult(f.body))
    /\ [][\A t \in DOMAIN fetch :
            (/\ fetch[t].pc = "read"
             /\ fetch'[t].pc # "read"
             /\ fs[fetch[t].path] \notin { Absent, Unreadable })
            => /\ fetch'[t].pc = "returned"
               /\ fetch'[t].result = OkResult(fs[fetch[t].path])
               /\ fetch'[t].gets = 0]_vars

\* C6 witness: a call whose cache read failed, whose GET was answered and
\* whose cache write failed returned the body; another returned the cached
\* text without a request.
C6_Witness ==
    /\ \E t \in DOMAIN fetch :
          /\ fetch[t].pc = "returned"
          /\ fetch[t].read = "failed"
          /\ fetch[t].write = "failed"
          /\ fetch[t].result = OkResult(RemoteBody(fetch[t].url))
    /\ \E t \in DOMAIN fetch :
          /\ fetch[t].pc = "returned"
          /\ fetch[t].read = "ok"
          /\ fetch[t].gets = 0

(* the signatures *)

\* the lines of log on which some signature of name has all its fragments
LinesMatching(name, log) ==
    LET lines == Lines(log)
        sigs == ConfigTargets[name]
    IN  { i \in 1..Len(lines) :
            \E k \in 1..Len(sigs) :
                \A j \in 1..Len(sigs[k]) : Contains(lines[i], sigs[k][j]) }

\* C7: once the literal mechanism has scanned a log, every configured name's
\* count has risen by the number of lines of the log on which at least one of
\* the name's signatures has all its fragments (one per line, however many
\* signatures match it), and no other count has changed.
C7_LiteralCountsMatchingLines ==
    cl_pc = "regex" =>
        /\ \A name \in DOMAIN ConfigTargets :
               Count(cl_findings, name)
                   = Count(cl_findings0, name)
                     + Cardinality(LinesMatching(name, cl_log))
        /\ \A name \in (DOMAIN cl_findings) \ (DOMAIN ConfigTargets) :
               Count(cl_findings, name) = Count(cl_findings0, name)
        /\ cl_has_reason
               = (\E name \in DOMAIN ConfigTargets : LinesMatching(name, cl_log) # {})

\* C7 witness: "AB" on one line and "A" on the next: [A,B] adds 1, the name
\* whose three signatures all match the first line adds 1 for it and 1 for
\* the second line, and the fragment "BA" is on no line.
C7_Witness ==
    /\ cl_pc = "regex"
    /\ cl_log = <<"A", "B", NL, "A">>
    /\ cl_findings0 = <<>>
    /\ Count(cl_findings, NameAB) = 1
    /\ Count(cl_findings, NameAny) = 2
    /\ Count(cl_findings, NameSeq) = 0

\* the positions of log at which the regular expression matches capturing code
MatchesCapturing(code, log) == { i \in 1..Len(log) : CaptureAt(log, i) = code }

\* the codes the regular expression captures in log
CapturedCodes(log) == { CaptureAt(log, i) : i \in 1..Len(log) } \ { <<>> }

\* C8 as claimed: a captured code's count rises by exactly 1 for the log,
\* however many lines match with that code.
C8_RegexOncePerDistinctCapture ==
    cl_pc = "done" =>
        \A code \in CapturedCodes(cl_log) :
            Count(cl_findings, code) = Count(cl_findings0, code) + 1

\* C8 amended: a captured code's count rises by the number of matches of the
\* regular expression that capture it (one per matching line).
C8_RegexOncePerMatch ==
    cl_pc = "done" =>
        /\ \A code \in CapturedCodes(cl_log) :
               Count(cl_findings, code)
                   = Count(cl_findings0, code)
                     + Cardinality(MatchesCapturing(code, cl_log))
        /\ \A name \in (DOMAIN cl_findings) \ (DOMAIN ConfigTargets) :
               name \notin CapturedCodes(cl_log)
                   => Count(cl_findings, name) = Count(cl_findings0, name)

\* C8 witness: two lines with the code E1 raise its count from 1 to 3.
C8_Witness ==
    /\ cl_pc = "done"
    /\ cl_log = ErrorLine(CodeE1) \o <<NL>> \o ErrorLine(CodeE1) \o <<NL>>
    /\ Count(cl_findings0, CodeE1) = 1
    /\ Count(cl_findings, CodeE1) = 3

\* the part of a log folder that follows its first "/logs/": the directory
\* component that stands for the log reference
SanitizedLogRef(folder) ==
    IF Contains(folder, LogsDir)
    THEN SubSeq(folder, Find(folder, LogsDir) + Len(LogsDir), Len(folder))
    ELSE folder

\* C9 as claimed: the sanitized log reference of the cache path holds no
\* "./" and does not begin with "/".
C9_SanitizedRefHasNoDotSlash ==
    gl_pc = "fetch" =>
        /\ ~Contains(SanitizedLogRef(gl_log_folder), DotSlash)
        /\ ~StartsWith(SanitizedLogRef(gl_log_folder), <<"/">>)

\* C10 as claimed: the cache path is
\* ./results/{experiment}/logs/{sanitizedLogRef}/log.txt: it keeps the
\* prefix and is never absolute.
C10_CachePathUnderLogsDir ==
    gl_pc = "fetch" =>
        /\ StartsWith(gl_log_path, ResultsDir \o gl_experiment \o LogsDir)
        /\ EndsWith(gl_log_path, LogTxt)
        /\ ~StartsWith(gl_log_path, <<"/">>)

\* the log references of the model that get_log maps to the cache path of
\* the call in hand although they differ from its log reference
CollidingLogRefs ==
    { l \in LogRefs : l # gl_log /\ LogPath(gl_experiment, l) = gl_log_path }

\* C11 as claimed: within one experiment get_log maps no other log reference
\* to the cache path it derived for this one (the derivation is injective),
\* references ending in "." or containing "./" included.
C11_LogPathInjective ==
    gl_pc = "fetch" => CollidingLogRefs = {}

\* no experiment has been started: no manifest or log was fetched and no
\* report file was created
NothingProcessed ==
    /\ next_experiment = 1
    /\ reports = <<>>
    /\ \A e \in 1..args :
           /\ experiments[e] = QueuedExperiment
           /\ report_file[e] = "none"

\* main works on the experiments only with a configuration file it could
\* read and parse; with any other it has returned and processed nothing
NoValidConfigNoProcessing ==
    /\ m_pc = "stream" => config_file = "valid"
    /\ (m_pc = "returned" /\ config_file # "valid") => NothingProcessed
    /\ (m_pc = "returned" /\ config_file = "malformed")
           => main_result = [tag |-> "Err", kind |-> "TomlDeserialization"]
    /\ (m_pc = "returned" /\ config_file = "unreadable")
           => main_result = [tag |-> "Err", kind |-> "Io"]

FirstRunPersistedAll ==
    /\ Len(rr_reports) = 2
    /\ rr_reports[1].tag = "Ok"
    /\ rr_reports[1].persisted = 0..Len(rr_logs)

\* C13 as claimed: when the first run_analysis downloaded and persisted the
\* manifest and every log, the second run_analysis of the same experiment
\* sends no request to the remote and returns the same Findings and, per
\* crate, the same Unclassified logs as a multiset.
C13_WarmCacheIdempotent ==
    (rr_pc = "done" /\ FirstRunPersistedAll) =>
        /\ rr_reports[2].tag = "Ok"
        /\ rr_reports[2].requests = {}
        /\ rr_reports[2].findings = rr_reports[1].findings
        /\ DOMAIN rr_reports[2].other = DOMAIN rr_reports[1].other
        /\ \A k \in DOMAIN rr_reports[1].other :
               SeqToBag(rr_reports[2].other[k]) = SeqToBag(rr_reports[1].other[k])

\* the units of the manifest whose outcome is the configured unit outcome
RegressedUnits ==
    { k \in 1..Len(crates) : crates[k].res = Config.crate_result }

\* the slots of those units that hold a run with the configured run outcome
EligibleSlots ==
    UNION { { <<k, j>> : j \in { j \in 1..Len(crates[k].runs) :
                                     /\ crates[k].runs[j].some
                                     /\ crates[k].runs[j].res = Config.run_result } }
            : k \in RegressedUnits }

\* C14: regressed_count is the number of units with the configured unit
\* outcome, whatever their runs, and interesting_results_count the number of
\* present runs with the configured run outcome of exactly those units; no
\* log fetch starts before both are set, no fetch result changes them, and
\* the report returns them.
C14_CountsFixedByManifest ==
    /\ ra_pc \in { "get_report", "filter" } =>
           (next_run = 1 /\ in_progress = {} /\ folded = <<>>)
    /\ ra_pc \in { "loop", "done" } =>
           /\ regressed_count = Cardinality(RegressedUnits)
           /\ interesting_results_count = Cardinality(EligibleSlots)
           /\ Len(interresting_runs) = interesting_results_count
    /\ ra_pc = "done" =>
           /\ ra_result.regressed_count = Cardinality(RegressedUnits)
           /\ ra_result.interesting_results_count = Cardinality(EligibleSlots)

\* C14 witness: a manifest with a unit that has only an absent slot and a
\* unit whose single eligible run failed to download: the report counts two
\* units and one run.
C14_Witness ==
    /\ ra_pc = "done"
    /\ Len(crates) = 2
    /\ crates[1].runs = << None >>
    /\ crates[2].runs = << Some("error", "lerr") >>
    /\ FailedRuns # {}
    /\ ra_result.regressed_count = 2
    /\ ra_result.interesting_results_count = 1

\* the window is refilled: it holds parallelism fetches or no work item is
\* left to start
WindowRefilled ==
    \/ Cardinality(in_progress) = parallelism
    \/ next_run > Len(interresting_runs)

\* C15: the window slides. The fan-in loop takes a completion only with the
\* window refilled, so a slot freed by one completion is given to the next
\* work item before the loop waits again, whatever fetch is still running;
\* the items are started one at a time in work-list order, and the started
\* ones are always a prefix of the work list.
C15_WindowSlides ==
    /\ [][Len(folded') > Len(folded) => WindowRefilled]_vars
    /\ [][next_run' # next_run =>
              /\ next_run' = next_run + 1
              /\ in_progress' = in_progress \cup { next_run }]_vars
    /\ [](ra_pc = "loop" =>
              in_progress \cup FoldedSet = 1..(next_run - 1))

\* C15 witness: the first work item is still being fetched while the other
\* slot of a window of two has been refilled twice: the second item is
\* folded and four items have been started.
C15_Witness ==
    /\ ra_pc = "loop"
    /\ parallelism = 2
    /\ 1 \in in_progress \ returned
    /\ 2 \in FoldedSet
    /\ next_run = 5
    /\ Cardinality(in_progress) = 2

\* C16: with every started fetch returning, the loop of run_analysis ends
\* and the AnalysisReport is produced; it is produced only with every work
\* item resolved, each folded exactly once, and the progress position at
\* interesting_results_count.
C16_EveryItemFoldedThenReport ==
    /\ (ra_pc = "loop") ~> (ra_pc = "done")
    /\ [](ra_pc = "done" =>
              /\ ra_result.tag = "Ok"
              /\ in_progress = {}
              /\ FoldedSet = 1..Len(interresting_runs)
              /\ Len(folded) = Len(interresting_runs)
              /\ run_pb = interesting_results_count)
    /\ [][Len(folded') > Len(folded) =>
              /\ Len(folded') = Len(folded) + 1
              /\ folded'[Len(folded')] \notin FoldedSet
              /\ run_pb' = run_pb + 1]_vars

\* C16 witness: a report produced after four work items, one of them with a
\* failed fetch, have each been folded.
C16_Witness ==
    /\ ra_pc = "done"
    /\ Len(interresting_runs) = 4
    /\ FailedRuns # {}
    /\ Len(folded) = 4
    /\ run_pb = 4

\* the experiments whose run_analysis is running
LevelRunning ==
    { e \in 1..Len(lv_experiments) : lv_experiments[e].pc = "analysis" }

\* the window of experiment e is refilled: it holds parallelism fetches or
\* no work item of e is left to start
LevelWindowRefilled(e) ==
    \/ lv_experiments[e].in_progress = LevelParallelism
    \/ lv_experiments[e].next_run > MaxLevelRuns

\* C17: at most 5 experiments are in the outer buffer, so at most 5 are
\* being processed; each keeps at most parallelism log fetches in flight, so
\* at most 5 * parallelism are in flight in all; and every experiment takes a
\* completion only with its own window refilled, whatever the windows of
\* the others hold.
C17_TwoIndependentWindows ==
    /\ [](/\ lv_next_experiment - 1 - lv_yielded <= OuterWindow
          /\ Cardinality(LevelRunning) <= OuterWindow
          /\ \A e \in 1..Len(lv_experiments) :
                 lv_experiments[e].in_progress <= LevelParallelism
          /\ LevelInFlight(lv_experiments) <= OuterWindow * LevelParallelism)
    /\ [][\A e \in 1..Len(lv_experiments) :
              lv_experiments'[e].in_progress < lv_experiments[e].in_progress
                  => LevelWindowRefilled(e)]_vars

\* C17 witness: five experiments are running, each with a full window, while
\* a further experiment waits: 5 * parallelism log fetches are in flight.
C17_Witness ==
    /\ Len(lv_experiments) > OuterWindow
    /\ Cardinality(LevelRunning) = OuterWindow
    /\ lv_next_experiment <= Len(lv_experiments)
    /\ \A e \in LevelRunning : lv_experiments[e].in_progress = LevelParallelism
    /\ LevelInFlight(lv_experiments) = OuterWindow * LevelParallelism

\* C18: findings and other change only in a step of the fan-in loop that
\* folds exactly one completed item; a get_log that returns writes neither;
\* from one state to the next no count of findings falls, no name leaves
\* findings and other only grows at its end.
C18_OnlyTheLoopWritesAndOnlyGrows ==
    /\ [][(findings' # findings \/ other' # other) =>
              /\ ra_pc = "loop"
              /\ Len(folded') = Len(folded) + 1
              /\ folded'[Len(folded')] \in returned]_vars
    /\ [][Len(folded') <= Len(folded) + 1]_vars
    /\ [][returned \subseteq returned' /\ returned' # returned =>
              (findings' = findings /\ other' = other)]_vars
    /\ [][\A name \in DOMAIN findings :
              /\ name \in DOMAIN findings'
              /\ findings'[name] >= findings[name]]_vars
    /\ [][/\ Len(other') >= Len(other)
          /\ SubSeq(other', 1, Len(other)) = other]_vars

\* C18 witness: findings and other both hold entries of folded items while
\* a returned get_log waits in the window, not yet folded.
C18_Witness ==
    /\ ra_pc = "loop"
    /\ findings # NoFindings
    /\ other # <<>>
    /\ returned # {}
    /\ Len(folded) >= 2

\* the calls that missed the cache and were answered with a non-success
\* status
AnsweredWithErrorStatus ==
    { t \in DOMAIN fetch :
          /\ fetch[t].read = "failed"
          /\ fetch[t].get = "response"
          /\ fetch[t].status # 200 }

\* C19 as claimed: a call whose cache read failed and whose GET was answered
\* with a non-success status writes nothing to the cache path and returns
\* an error, never the body of the error response as the content of the
\* file, so that the loop of run_analysis drops the run.
C19_ErrorStatusIsTransportFailure ==
    \A t \in AnsweredWithErrorStatus :
        /\ fetch[t].write = ""
        /\ fetch[t].pc = "returned" =>
               /\ fetch[t].result.tag = "Err"
               /\ fetch[t].result # OkResult(ErrorBody)

\* in the first run, which starts with an empty cache, every response so
\* far carried the body the remote serves at its URL
RemoteServedItsBodies ==
    /\ rr_run = 1
    /\ \A t \in DOMAIN fetch : fetch[t].status \in { 0, 200 }

\* C20 as claimed: from an empty cache and with the remote serving its body
\* at every URL, the content classified for a run is the body served at the
\* URL of that run's own log reference, for every work list and every
\* interleaving.
C20_ClassifiedTextIsOwnBody ==
    RemoteServedItsBodies =>
        \A i \in 1..Len(rr_logs) :
            rr_classified[i] \notin { "", "dropped" }
                => rr_classified[i] = RemoteBody(LogRequest(rr_logs[i]).url)

====
